---- MODULE Spec2Model ----
(***************************************************************************)
(* A model of confidantic: the settings singleton with its env-file        *)
(* cascade (src/confidantic/__init__.py) and the semantic-version model    *)
(* with its project-file rewriter (src/confidantic/versioning.py).         *)
(*                                                                         *)
(* Text is modelled as a sequence of one-character strings, so parsing     *)
(* and formatting are computed character by character.                     *)
(***************************************************************************)
EXTENDS Integers, Sequences, FiniteSets, TLC

VARIABLES
    value,      \* versioning: the text handed to VersionBase.parse
    vpc,        \* versioning: position of the driver (start/parsed/rendered/bumped/failed)
    heap,       \* versioning: the VersionBase objects alive, by reference
    cur,        \* versioning: reference of the parsed version (self), 0 if none
    new,        \* versioning: reference returned by _bumped, 0 if none
    rendered,   \* versioning: the text str() produced, <<>> before it ran
    bumpArgs,   \* versioning: the (part, prerelease) arguments of the last _bumped
    listing,    \* cascade: the *.env files under the root, in the order rglob yields them
    env_files,  \* cascade: the result of gather_env_files
    merged,     \* cascade: the result of load_env_files
    epc,        \* cascade: position of the driver (start/gathered/loaded)
    environ,    \* singleton: os.environ
    dotConfig,  \* singleton: what <root>/.config is: "absent", "dir" or "file"
    snapshot,   \* singleton: what <root>/.config/confidantic.yaml is
    gitRepo,    \* singleton: whether Repo(project_root) and its head resolve
    pkgMeta,    \* singleton: what md.version(root.name) does
    objs,       \* singleton: the Settings objects constructed, by reference
    instance,   \* singleton: _SettingsSingleton._instance (0 is None)
    cached_cls, \* singleton: _SettingsSingleton._cls ("None" is None)
    calls,      \* singleton: the outcome of every init call so far
    validated,  \* singleton: the argument of the last model_validate call
    nValidates, \* singleton: how many times model_validate was called
    nWrites,    \* singleton: how many times the snapshot was written
    pyproject,  \* rewriter: <root>/pyproject.toml: whether it exists, and its lines
    pkg_init,   \* rewriter: <root>/src/<name>/__init__.py: likewise
    before,     \* rewriter: both files as they were before the call
    bumpCall,   \* rewriter: the arguments of the bump_at_project_root call
    bumpResult  \* rewriter: what the call returned or raised

versionVars == <<value, vpc, heap, cur, new, rendered, bumpArgs>>

cascadeVars == <<listing, env_files, merged, epc>>

singletonVars == <<environ, dotConfig, snapshot, gitRepo, pkgMeta, objs, instance,
                   cached_cls, calls, validated, nValidates, nWrites>>

rewriterVars == <<pyproject, pkg_init, before, bumpCall, bumpResult>>

vars == <<value, vpc, heap, cur, new, rendered, bumpArgs,
          listing, env_files, merged, epc,
          environ, dotConfig, snapshot, gitRepo, pkgMeta, objs, instance,
          cached_cls, calls, validated, nValidates, nWrites,
          pyproject, pkg_init, before, bumpCall, bumpResult>>

\* an optional str: None, or Some(s) for the text s
None == [none |-> TRUE, s |-> <<>>]

Some(s) == [none |-> FALSE, s |-> s]

(***************************************************************************)
(* Bounds of the model.                                                    *)
(***************************************************************************)
MaxDigits == 2      \* longest number token of an input text
MaxPre == 1         \* longest prerelease label of an input text
MaxFiles == 3       \* most *.env files under the root
MaxDepth == 3       \* deepest *.env file, in path segments below the root
MaxCalls == 3       \* most init calls in one process
MaxLines == 4       \* most lines of a pyproject.toml

(***************************************************************************)
(* Characters.                                                             *)
(***************************************************************************)
AsciiDigits == {"0", "1", "2", "3", "4", "5", "6", "7", "8", "9"}

\* "u3" stands for U+0663 ARABIC-INDIC DIGIT THREE: a decimal digit that
\* Python's \d matches and int() converts, and that is not in [0-9].
UnicodeDigits == {"u3"}

Letters == {"a", "b", "c", "r"}

Whitespace == {" ", "\n"}

DigitVal(c) ==
    CASE c = "0" -> 0 [] c = "1" -> 1 [] c = "2" -> 2 [] c = "3" -> 3
      [] c = "4" -> 4 [] c = "5" -> 5 [] c = "6" -> 6 [] c = "7" -> 7
      [] c = "8" -> 8 [] c = "9" -> 9 [] c = "u3" -> 3

DigitChar(d) ==
    CASE d = 0 -> "0" [] d = 1 -> "1" [] d = 2 -> "2" [] d = 3 -> "3"
      [] d = 4 -> "4" [] d = 5 -> "5" [] d = 6 -> "6" [] d = 7 -> "7"
      [] d = 8 -> "8" [] d = 9 -> "9"

\* \d of the re module on str patterns: any Unicode decimal digit
IsDigit(c) == c \in AsciiDigits \cup UnicodeDigits

\* [1-9]
IsDigit19(c) == c \in AsciiDigits \ {"0"}

\* [0-9A-Za-z.-]
IsPreChar(c) == c \in AsciiDigits \cup Letters \cup {".", "-"}

(***************************************************************************)
(* Text helpers of the Python runtime.                                     *)
(***************************************************************************)
RECURSIVE LStrip(_)
LStrip(s) ==
    IF s # <<>> /\ Head(s) \in Whitespace THEN LStrip(Tail(s)) ELSE s

RECURSIVE RStrip(_)
RStrip(s) ==
    IF s # <<>> /\ s[Len(s)] \in Whitespace
    THEN RStrip(SubSeq(s, 1, Len(s) - 1))
    ELSE s

\* str.strip()
Strip(s) == RStrip(LStrip(s))

\* int(text) for a text of decimal digits
RECURSIVE IntOf(_)
IntOf(s) ==
    IF s = <<>> THEN 0
    ELSE 10 * IntOf(SubSeq(s, 1, Len(s) - 1)) + DigitVal(s[Len(s)])

\* str(n) for n >= 0
RECURSIVE StrOfInt(_)
StrOfInt(n) ==
    IF n < 10 THEN <<DigitChar(n)>>
    ELSE Append(StrOfInt(n \div 10), DigitChar(n % 10))

(***************************************************************************)
(* VersionBase._SEMVER_RE, matched from position 1 of s.                   *)
(***************************************************************************)
\* the end of the run of \d that starts at i (first position not matched)
RECURSIVE DigitRunEnd(_, _)
DigitRunEnd(s, i) ==
    IF i <= Len(s) /\ IsDigit(s[i]) THEN DigitRunEnd(s, i + 1) ELSE i

\* (0|[1-9]\d*) at position i: the position after the group, 0 if no match
NumberEnd(s, i) ==
    IF i > Len(s) THEN 0
    ELSE IF s[i] = "0" THEN i + 1
    ELSE IF IsDigit19(s[i]) THEN DigitRunEnd(s, i + 1)
    ELSE 0

\* "\." at position i: the position after it, 0 if no match (or i = 0)
DotEnd(s, i) ==
    IF i # 0 /\ i <= Len(s) /\ s[i] = "." THEN i + 1 ELSE 0

\* the end of the run of [0-9A-Za-z.-] that starts at i
RECURSIVE PreRunEnd(_, _)
PreRunEnd(s, i) ==
    IF i <= Len(s) /\ IsPreChar(s[i]) THEN PreRunEnd(s, i + 1) ELSE i

\* "$" without re.M: the end of the text, or just before a final newline
AtEnd(s, i) ==
    i = Len(s) + 1 \/ (i = Len(s) /\ s[i] = "\n")

\* re.match: ok is FALSE when there is no match, else the groupdict follows
NoMatch == [ok |-> FALSE]

SemverMatch(s) ==
    LET e1 == NumberEnd(s, 1)
        d1 == DotEnd(s, e1)
        e2 == IF d1 = 0 THEN 0 ELSE NumberEnd(s, d1)
        d2 == DotEnd(s, e2)
        e3 == IF d2 = 0 THEN 0 ELSE NumberEnd(s, d2)
        groups == [major |-> SubSeq(s, 1, e1 - 1),
                   minor |-> SubSeq(s, d1, e2 - 1),
                   patch |-> SubSeq(s, d2, e3 - 1)]
    IN  IF e3 = 0 THEN NoMatch
        ELSE IF AtEnd(s, e3) THEN [ok |-> TRUE, pre |-> None] @@ groups
        ELSE IF e3 <= Len(s) /\ s[e3] = "-"
                /\ PreRunEnd(s, e3 + 1) > e3 + 1
                /\ AtEnd(s, PreRunEnd(s, e3 + 1))
             THEN [ok |-> TRUE,
                   pre |-> Some(SubSeq(s, e3 + 1, PreRunEnd(s, e3 + 1) - 1))]
                  @@ groups
        ELSE NoMatch

(***************************************************************************)
(* VersionBase.                                                            *)
(***************************************************************************)
\* the ValueError parse raises
ValueError == [ok |-> FALSE]

\* VersionBase.parse: ok and the version's fields, or ValueError
parse(s) ==
    LET match == SemverMatch(Strip(s))
    IN  IF ~match.ok THEN ValueError
        ELSE [ok |-> TRUE,
              v |-> [major |-> IntOf(match.major),
                     minor |-> IntOf(match.minor),
                     patch |-> IntOf(match.patch),
                     prerelease |-> match.pre]]

\* the truth value of an optional str: None and "" are false
Truthy(p) == ~p.none /\ p.s # <<>>

\* a mutant of Str: the prerelease label is left out
StrWithoutPre(v) ==
    StrOfInt(v.major) \o <<".">> \o StrOfInt(v.minor) \o <<".">> \o StrOfInt(v.patch)

\* VersionBase.__str__
Str(v) ==
    LET base == StrOfInt(v.major) \o <<".">> \o StrOfInt(v.minor)
                    \o <<".">> \o StrOfInt(v.patch)
    IN  IF Truthy(v.prerelease) THEN base \o <<"-">> \o v.prerelease.s ELSE base

\* a mutant of ModelCopy: no copy is made, the result aliases the receiver
ModelCopyAlias(h, self) == [heap |-> h, ref |-> self]

\* BaseModel.model_copy(): a new object with the receiver's field values
ModelCopy(h, self) == [heap |-> Append(h, h[self]), ref |-> Len(h) + 1]

\* VersionBase._bumped: the heap after the call and the reference returned
Bumped(h, self, part, prerelease) ==
    LET c == ModelCopy(h, self)
        n == c.ref
        h1 == IF part = "major"
                THEN [c.heap EXCEPT ![n].major = h[self].major + 1,
                                    ![n].minor = 0,
                                    ![n].patch = 0]
              ELSE IF part = "minor"
                THEN [c.heap EXCEPT ![n].minor = h[self].minor + 1,
                                    ![n].patch = 0]
              ELSE [c.heap EXCEPT ![n].patch = @ + 1]
    IN  [heap |-> [h1 EXCEPT ![n].prerelease = prerelease], ref |-> n]

(***************************************************************************)
(* The env-file cascade.  A dict is a function on its keys; a file is its  *)
(* depth (len(p.parts), counted from the root) and what dotenv_values      *)
(* reads from it: each key mapped to a text, or to NoValue for a key       *)
(* written without "=value".                                               *)
(***************************************************************************)
EmptyDict == [k \in {} |-> ""]

\* the None that dotenv_values gives a key without a value
NoValue == "<None>"

\* dict.update / the | of two dicts: the right operand wins
Update(d, e) ==
    [k \in DOMAIN d \cup DOMAIN e |-> IF k \in DOMAIN e THEN e[k] ELSE d[k]]

\* f put into a list sorted by descending depth, after every entry that is
\* at least as deep (the sort is stable)
InsertDesc(sorted, f) ==
    LET ahead == {i \in 1..Len(sorted) : sorted[i].depth >= f.depth}
        n == Cardinality(ahead)
    IN  SubSeq(sorted, 1, n) \o <<f>> \o SubSeq(sorted, n + 1, Len(sorted))

\* sorted(files, key=lambda p: len(p.parts), reverse=True)
RECURSIVE SortedByDepthDesc(_)
SortedByDepthDesc(files) ==
    IF files = <<>> THEN <<>>
    ELSE InsertDesc(SortedByDepthDesc(SubSeq(files, 1, Len(files) - 1)),
                    files[Len(files)])

\* gather_env_files, given what root.rglob("*.env") yields
gather_env_files(rglob) == SortedByDepthDesc(rglob)

\* the loop of load_env_files over files[::-1]: the last file first
RECURSIVE UpdateAll(_, _)
UpdateAll(env, files) ==
    IF files = <<>> THEN env
    ELSE UpdateAll(Update(env, files[Len(files)].content),
                   SubSeq(files, 1, Len(files) - 1))

\* load_env_files
load_env_files(files) ==
    LET env == UpdateAll(EmptyDict, files)
    IN  [k \in {x \in DOMAIN env : env[x] # NoValue} |-> env[k]]

Keys == {"K", "L"}

\* what a file can hold: K absent, without a value or with one; L absent or set
FileContents ==
    {c \in UNION {[ks -> {NoValue, "a", "b", "c"}] : ks \in SUBSET Keys} :
        "L" \in DOMAIN c => c["L"] = "c"}

EnvFiles == [depth : 1..MaxDepth, content : FileContents]

Listings == UNION {[1..n -> EnvFiles] : n \in 0..MaxFiles}

CascadeIdle ==
    /\ listing = <<>>
    /\ env_files = <<>>
    /\ merged = EmptyDict
    /\ epc = "idle"

(***************************************************************************)
(* _SettingsSingleton.                                                     *)
(***************************************************************************)
\* the record classes: Settings declares no required field; AppSettings
\* stands for a subclass that declares K: str without a default
Classes == {"Settings", "AppSettings"}

Required(model_cls) == IF model_cls = "AppSettings" THEN {"K"} ELSE {}

\* model_cls.model_validate(data) succeeds (extra = "allow": every other key
\* is accepted)
Validates(model_cls, data) == Required(model_cls) \subseteq DOMAIN data

\* a mutant of MergedMapping: the process environment is merged last
MergedMappingEnvLast(file_data, os_environ, kwargs) ==
    Update(Update(file_data, kwargs), os_environ)

\* env_data.update(os.environ) and then env_data | kwargs
MergedMapping(file_data, os_environ, kwargs) ==
    Update(Update(file_data, os_environ), kwargs)

NoSnapshot == [kind |-> "absent"]

\* the snapshot written by dump_path.write_text(instance.model_dump_json())
SnapshotOf(obj) == [kind |-> "file", data |-> obj]

SingletonIdle ==
    /\ environ = EmptyDict
    /\ dotConfig = "absent"
    /\ snapshot = NoSnapshot
    /\ gitRepo = FALSE
    /\ pkgMeta = "notfound"
    /\ objs = <<>>
    /\ instance = 0
    /\ cached_cls = "None"
    /\ calls = <<>>
    /\ validated = [data |-> EmptyDict, kwargs |-> EmptyDict]
    /\ nValidates = 0
    /\ nWrites = 0

(***************************************************************************)
(* The project files of bump_at_project_root.  A file is a sequence of     *)
(* lines.  A line of pyproject.toml is a table header ([project],          *)
(* [tool.poetry], [tool.other]) or a version key, written with a basic     *)
(* string (version = "...") or a literal one (version = '...').  A line of *)
(* __init__.py is a __version__ = "..." assignment or other code.          *)
(***************************************************************************)
TableLine(name) == [kind |-> "table", arg |-> name, text |-> <<>>]

VersionLine(quote, text) == [kind |-> "version", arg |-> quote, text |-> text]

DunderLine(text) == [kind |-> "dunder", arg |-> "double", text |-> text]

CodeLine == [kind |-> "code", arg |-> "", text |-> <<>>]

NoFile == [exists |-> FALSE, lines |-> <<>>]

File(lines) == [exists |-> TRUE, lines |-> lines]

\* tomllib.loads, as far as _read_version looks: the version key of each
\* table ("" is the top level); a table or a key defined twice is a
\* TOMLDecodeError
RECURSIVE TomlLoads(_, _, _, _)
TomlLoads(lines, table, tables, versions) ==
    IF lines = <<>> THEN [ok |-> TRUE, versions |-> versions]
    ELSE LET line == Head(lines)
         IN  IF line.kind = "table"
             THEN IF line.arg \in tables THEN [ok |-> FALSE, versions |-> EmptyDict]
                  ELSE TomlLoads(Tail(lines), line.arg, tables \cup {line.arg},
                                 versions)
             ELSE IF table \in DOMAIN versions
                  THEN [ok |-> FALSE, versions |-> EmptyDict]
                  ELSE TomlLoads(Tail(lines), table, tables,
                                 Update(versions, [t \in {table} |-> line.text]))

\* data.get("project", {}).get("version")
\*     or data.get("tool", {}).get("poetry", {}).get("version")
VersionStr(versions) ==
    IF "project" \in DOMAIN versions /\ versions["project"] # <<>>
    THEN Some(versions["project"])
    ELSE IF "tool.poetry" \in DOMAIN versions
    THEN Some(versions["tool.poetry"])
    ELSE None

\* VersionBase._read_version: ok and the version, or the error raised
\* (TOMLDecodeError, or ValueError for a missing or invalid version)
ReadVersion(file) ==
    LET data == TomlLoads(file.lines, "", {}, EmptyDict)
        version_str == VersionStr(data.versions)
    IN  IF ~data.ok THEN [ok |-> FALSE, error |-> "TOMLDecodeError"]
        ELSE IF ~Truthy(version_str) THEN [ok |-> FALSE, error |-> "ValueError"]
        ELSE IF ~parse(version_str.s).ok THEN [ok |-> FALSE, error |-> "ValueError"]
        ELSE [ok |-> TRUE, v |-> parse(version_str.s).v]

\* the index of the first line that pattern (a line kind, written with a
\* basic string) matches, 0 if there is none
FirstMatch(lines, kind) ==
    LET hits == {i \in 1..Len(lines) :
                    lines[i].kind = kind /\ lines[i].arg = "double"}
    IN  IF hits = {} THEN 0 ELSE CHOOSE i \in hits : \A j \in hits : i <= j

\* a mutant of WritePyproject: a pattern that matches nowhere goes unnoticed
WritePyprojectUnchecked(file, v) ==
    LET n == FirstMatch(file.lines, "version")
    IN  IF n = 0 THEN [ok |-> TRUE, file |-> file]
        ELSE [ok |-> TRUE,
              file |-> File([file.lines EXCEPT ![n] = VersionLine("double", Str(v))])]

\* VersionBase._write_pyproject: _PYPROJECT_RE.subn(..., count=1); ok is
\* FALSE for the ValueError of n == 0, and nothing is written then
WritePyproject(file, v) ==
    LET n == FirstMatch(file.lines, "version")
    IN  IF n = 0 THEN [ok |-> FALSE, file |-> file]
        ELSE [ok |-> TRUE,
              file |-> File([file.lines EXCEPT ![n] = VersionLine("double", Str(v))])]

\* VersionBase._write_init: the first assignment is rewritten, or one is
\* put at the very top
WriteInit(file, v) ==
    LET n == FirstMatch(file.lines, "dunder")
    IN  IF n # 0
        THEN File([file.lines EXCEPT ![n] = DunderLine(Str(v))])
        ELSE File(<<DunderLine(Str(v))>> \o file.lines)

\* a mutant of Writes: the files are written on a dry run too
WritesAlways(dry_run) == TRUE

\* "if not dry_run:" of bump_at_project_root
Writes(dry_run) == ~dry_run

NoCall == [part |-> "", prerelease |-> None, dry_run |-> FALSE]

NoResult == [status |-> "none"]

RewriterIdle ==
    /\ pyproject = NoFile
    /\ pkg_init = NoFile
    /\ before = [pyproject |-> NoFile, pkg_init |-> NoFile]
    /\ bumpCall = NoCall
    /\ bumpResult = NoResult

(***************************************************************************)
(* The inputs of the versioning specification.                             *)
(***************************************************************************)
\* the texts of exactly n characters of cs
RECURSIVE TextsOfLen(_, _)
TextsOfLen(cs, n) ==
    IF n = 0 THEN {<<>>}
    ELSE {Append(t, c) : t \in TextsOfLen(cs, n - 1), c \in cs}

\* the texts of 1..n characters of cs
TextsUpTo(cs, n) == UNION {TextsOfLen(cs, k) : k \in 1..n}

TokenDigits == {"0", "1", "u3"}

PreGenChars == {"a", "0", ".", "-", "_"}

\* number tokens: well-formed ones, ones with a leading zero, ones with a
\* non-ASCII digit
LongTokens == TextsUpTo(TokenDigits, MaxDigits)

ShortTokens == TextsOfLen(TokenDigits, 1)

\* three number tokens, at most one of them longer than one character
TokenTriples ==
    (LongTokens \X ShortTokens \X ShortTokens)
        \cup (ShortTokens \X LongTokens \X ShortTokens)
        \cup (ShortTokens \X ShortTokens \X LongTokens)

Tails == {<<>>, <<"-">>} \cup {<<"-">> \o p : p \in TextsUpTo(PreGenChars, MaxPre)}

InputTexts ==
    {lead \o t[1] \o sep \o t[2] \o <<".">> \o t[3] \o tail \o trail :
        lead \in {<<>>, <<" ">>}, t \in TokenTriples, sep \in {<<".">>, <<"-">>},
        tail \in Tails, trail \in {<<>>, <<"\n">>}}

Parts == {"major", "minor", "patch"}

\* the prerelease arguments of a bump: the default, a label, the empty text
PreArgs == {None, Some(<<"r", "c">>), Some(<<>>)}

NoArgs == [part |-> "", prerelease |-> None]

VersionIdle ==
    /\ value = <<>>
    /\ vpc = "idle"
    /\ heap = <<>>
    /\ cur = 0
    /\ new = 0
    /\ rendered = <<>>
    /\ bumpArgs = NoArgs

(***************************************************************************)
(* The versioning specification: a text is parsed, and the version is     *)
(* then rendered or bumped.                                                *)
(***************************************************************************)
InitVersion ==
    /\ value \in InputTexts
    /\ vpc = "start"
    /\ heap = <<>>
    /\ cur = 0
    /\ new = 0
    /\ rendered = <<>>
    /\ bumpArgs = NoArgs
    /\ CascadeIdle
    /\ SingletonIdle
    /\ RewriterIdle

\* current = VersionBase.parse(value)
Parse ==
    /\ vpc = "start"
    /\ LET r == parse(value)
       IN  IF r.ok
           THEN /\ heap' = <<r.v>>
                /\ cur' = 1
                /\ vpc' = "parsed"
           ELSE /\ vpc' = "failed"
                /\ UNCHANGED <<heap, cur>>
    /\ UNCHANGED <<value, new, rendered, bumpArgs>>
    /\ UNCHANGED <<cascadeVars, singletonVars, rewriterVars>>

\* rendered = str(current)
Render ==
    /\ vpc = "parsed"
    /\ rendered' = Str(heap[cur])
    /\ vpc' = "rendered"
    /\ UNCHANGED <<value, heap, cur, new, bumpArgs>>
    /\ UNCHANGED <<cascadeVars, singletonVars, rewriterVars>>

\* new = current._bumped(part, prerelease=pre), through bump_major,
\* bump_minor or bump_patch
Bump(part, pre) ==
    /\ vpc = "parsed"
    /\ LET r == Bumped(heap, cur, part, pre)
       IN  /\ heap' = r.heap
           /\ new' = r.ref
    /\ bumpArgs' = [part |-> part, prerelease |-> pre]
    /\ vpc' = "bumped"
    /\ UNCHANGED <<value, cur, rendered>>
    /\ UNCHANGED <<cascadeVars, singletonVars, rewriterVars>>

NextVersion ==
    \/ Parse
    \/ Render
    \/ \E part \in Parts, pre \in PreArgs : Bump(part, pre)

SpecVersion == InitVersion /\ [][NextVersion]_vars

(***************************************************************************)
(* The SemVer-core grammar as the specification words it, stated without   *)
(* the code's pattern: ASCII decimal numerals without leading zeros.       *)
(***************************************************************************)
Numeral(t) ==
    /\ t # <<>>
    /\ \A i \in 1..Len(t) : t[i] \in AsciiDigits
    /\ Len(t) > 1 => t[1] # "0"

Label(t) ==
    /\ t # <<>>
    /\ \A i \in 1..Len(t) : t[i] \in AsciiDigits \cup Letters \cup {".", "-"}

InGrammar(s) ==
    \E i \in 1..Len(s), j \in 1..Len(s), k \in 1..(Len(s) + 1) :
        /\ i < j /\ j < k
        /\ s[i] = "." /\ s[j] = "."
        /\ Numeral(SubSeq(s, 1, i - 1))
        /\ Numeral(SubSeq(s, i + 1, j - 1))
        /\ Numeral(SubSeq(s, j + 1, k - 1))
        /\ \/ k = Len(s) + 1
           \/ s[k] = "-" /\ Label(SubSeq(s, k + 1, Len(s)))

(***************************************************************************)
(* C5: round trip. For every text S of the SemVer-core grammar, parse(S)   *)
(* succeeds and str(parse(S)) is S again.                                  *)
(***************************************************************************)
C5_RoundTrip ==
    InGrammar(value) =>
        /\ vpc # "failed"
        /\ vpc = "rendered" => rendered = value

\* a grammar text with a two-digit number and a prerelease label was parsed
\* and rendered
C5_Witness ==
    /\ vpc = "rendered"
    /\ InGrammar(value)
    /\ heap[cur].major >= 10
    /\ ~heap[cur].prerelease.none

(***************************************************************************)
(* C6: a bump of (M, m, p, pre) with prerelease argument q returns         *)
(* (M+1, 0, 0, q) for major, (M, m+1, 0, q) for minor and (M, m, p+1, q)   *)
(* for patch, in a new object, and leaves the version it was called on     *)
(* unchanged.                                                              *)
(***************************************************************************)
BumpExpected(v, part, q) ==
    CASE part = "major" ->
            [major |-> v.major + 1, minor |-> 0, patch |-> 0, prerelease |-> q]
      [] part = "minor" ->
            [major |-> v.major, minor |-> v.minor + 1, patch |-> 0, prerelease |-> q]
      [] part = "patch" ->
            [major |-> v.major, minor |-> v.minor, patch |-> v.patch + 1,
             prerelease |-> q]

C6_BumpResult ==
    [][(vpc = "parsed" /\ vpc' = "bumped") =>
            /\ heap'[new'] = BumpExpected(heap[cur], bumpArgs'.part,
                                          bumpArgs'.prerelease)
            /\ cur' = cur
            /\ heap'[cur] = heap[cur]]_vars

\* a minor bump with the default prerelease of a version that carried a
\* prerelease label and a non-zero patch
C6_Witness ==
    /\ vpc = "bumped"
    /\ bumpArgs = [part |-> "minor", prerelease |-> None]
    /\ ~heap[cur].prerelease.none
    /\ heap[cur].patch > 0
    /\ heap[new].patch = 0
    /\ heap[new].prerelease.none

(***************************************************************************)
(* The cascade specification: the files are gathered, then loaded.         *)
(***************************************************************************)
InitCascade ==
    /\ listing \in Listings
    /\ env_files = <<>>
    /\ merged = EmptyDict
    /\ epc = "start"
    /\ VersionIdle
    /\ SingletonIdle
    /\ RewriterIdle

\* env_files = gather_env_files(root)
Gather ==
    /\ epc = "start"
    /\ env_files' = gather_env_files(listing)
    /\ epc' = "gathered"
    /\ UNCHANGED <<listing, merged>>
    /\ UNCHANGED <<versionVars, singletonVars, rewriterVars>>

\* merged = load_env_files(env_files)
Load ==
    /\ epc = "gathered"
    /\ merged' = load_env_files(env_files)
    /\ epc' = "loaded"
    /\ UNCHANGED <<listing, env_files>>
    /\ UNCHANGED <<versionVars, singletonVars, rewriterVars>>

NextCascade ==
    \/ Gather
    \/ Load

SpecCascade == InitCascade /\ [][NextCascade]_vars

\* the files of the listing that give key k a value
Valued(k) ==
    {i \in 1..Len(listing) :
        k \in DOMAIN listing[i].content /\ listing[i].content[k] # NoValue}

\* the files of the listing that list key k, with or without a value
Listed(k) == {i \in 1..Len(listing) : k \in DOMAIN listing[i].content}

DistinctDepths ==
    \A i, j \in 1..Len(listing) : i # j => listing[i].depth # listing[j].depth

\* the deepest of the files is (a non-empty set of indices, distinct depths)
Deepest(is) ==
    CHOOSE i \in is : \A j \in is : listing[j].depth <= listing[i].depth

(***************************************************************************)
(* C2: with the files at pairwise distinct depths, every key that some     *)
(* file gives a value is mapped, by load_env_files(gather_env_files(root)),*)
(* to the value of the deepest file that defines it, whatever the order of *)
(* the listing.                                                            *)
(***************************************************************************)
C2_DeepestWins ==
    (epc = "loaded" /\ DistinctDepths) =>
        \A k \in Keys :
            Valued(k) # {} =>
                /\ k \in DOMAIN merged
                /\ merged[k] = listing[Deepest(Valued(k))].content[k]

(***************************************************************************)
(* C4: a key a deeper file lists without a value does not erase the value  *)
(* a shallower file gave it: with K set in a shallower file, listed        *)
(* without a value in a deeper one and in no other file, the merged result *)
(* maps K to the shallower file's value.                                   *)
(***************************************************************************)
C4_NullKeepsEarlier ==
    epc = "loaded" =>
        \A k \in Keys : \A i, j \in 1..Len(listing) :
            (/\ Listed(k) = {i, j}
             /\ listing[i].depth < listing[j].depth
             /\ listing[i].content[k] # NoValue
             /\ listing[j].content[k] = NoValue)
            => (k \in DOMAIN merged /\ merged[k] = listing[i].content[k])

(***************************************************************************)
(* The singleton specification: a process calls _SettingsSingleton.init    *)
(* (directly, on import, or through init_settings) again and again.        *)
(***************************************************************************)
\* the *.env files of the process's project: one key, up to two files
ProjectFiles == [depth : 1..2, content : {EmptyDict, [k \in {"K"} |-> "a"]}]

ProjectListings == UNION {[1..n -> ProjectFiles] : n \in 0..2}

Environs ==
    {e \in UNION {[ks -> {"b", "c"}] : ks \in SUBSET Keys} :
        /\ "K" \in DOMAIN e => e["K"] = "b"
        /\ "L" \in DOMAIN e => e["L"] = "c"}

KwargSets == {EmptyDict, [k \in {"K"} |-> "c"], [k \in {"L"} |-> "a"]}

Init ==
    /\ listing \in ProjectListings
    /\ env_files = <<>>
    /\ merged = EmptyDict
    /\ epc = "idle"
    /\ environ \in Environs
    /\ dotConfig \in {"absent", "dir", "file"}
    /\ snapshot \in {NoSnapshot, [kind |-> "dir"], [kind |-> "stale"]}
    /\ gitRepo \in BOOLEAN
    /\ pkgMeta \in {"found", "notfound", "error"}
    /\ objs = <<>>
    /\ instance = 0
    /\ cached_cls = "None"
    /\ calls = <<>>
    /\ validated = [data |-> EmptyDict, kwargs |-> EmptyDict]
    /\ nValidates = 0
    /\ nWrites = 0
    /\ VersionIdle
    /\ RewriterIdle

\* the entry of calls for a call that returned the object ref
Returned(ref, h, n) ==
    [raised |-> FALSE, ref |-> ref, seen |-> h[ref], validations |-> n]

\* the entry of calls for a call that raised
Raised(n) == [raised |-> TRUE, ref |-> 0, seen |-> EmptyDict, validations |-> n]

\* _SettingsSingleton.init(model_cls, **kwargs), also as called by
\* init_settings and by the import of the package
SettingsInit(model_cls, kwargs) ==
    /\ Len(calls) < MaxCalls
    /\ IF instance # 0
       THEN \* the cached record is returned
            /\ calls' = Append(calls, Returned(instance, objs, nValidates))
            /\ UNCHANGED <<env_files, merged, dotConfig, snapshot, objs, instance,
                           cached_cls, validated, nValidates, nWrites>>
       ELSE LET files == gather_env_files(listing)
                env_data == load_env_files(files)
                data == MergedMapping(env_data, environ, kwargs)
                obj == [cls |-> model_cls,
                        fields |-> data,
                        env_files |-> files,
                        git |-> gitRepo,
                        package_version |-> (pkgMeta = "found")]
                ref == Len(objs) + 1
            IN  /\ env_files' = files
                /\ merged' = env_data
                /\ validated' = [data |-> data, kwargs |-> kwargs]
                /\ nValidates' = nValidates + 1
                /\ IF ~Validates(model_cls, data)
                   THEN \* model_validate raises ValidationError
                        /\ calls' = Append(calls, Raised(nValidates + 1))
                        /\ UNCHANGED <<dotConfig, snapshot, objs, instance,
                                       cached_cls, nWrites>>
                   ELSE IF pkgMeta = "error"
                   THEN \* _populate_pkg lets the lookup failure through
                        /\ objs' = Append(objs, obj)
                        /\ calls' = Append(calls, Raised(nValidates + 1))
                        /\ UNCHANGED <<dotConfig, snapshot, instance, cached_cls,
                                       nWrites>>
                   ELSE \* the record is cached, then the snapshot is written
                        /\ objs' = Append(objs, obj)
                        /\ instance' = ref
                        /\ cached_cls' = model_cls
                        /\ IF dotConfig = "file"
                           THEN \* mkdir(exist_ok=True) raises FileExistsError
                                /\ calls' = Append(calls, Raised(nValidates + 1))
                                /\ UNCHANGED <<dotConfig, snapshot, nWrites>>
                           ELSE IF snapshot.kind = "dir"
                           THEN \* write_text raises IsADirectoryError
                                /\ dotConfig' = "dir"
                                /\ calls' = Append(calls, Raised(nValidates + 1))
                                /\ UNCHANGED <<snapshot, nWrites>>
                           ELSE /\ dotConfig' = "dir"
                                /\ snapshot' = SnapshotOf(obj)
                                /\ nWrites' = nWrites + 1
                                /\ calls' = Append(calls,
                                        Returned(ref, Append(objs, obj),
                                                 nValidates + 1))
    /\ UNCHANGED <<listing, epc, environ, gitRepo, pkgMeta>>
    /\ UNCHANGED <<versionVars, rewriterVars>>

Next ==
    \E model_cls \in Classes, kwargs \in KwargSets : SettingsInit(model_cls, kwargs)

Spec == Init /\ [][Next]_vars

(***************************************************************************)
(* C1: once an init call has returned a record, every later call returns   *)
(* that same record with the same field values without validating again,   *)
(* and the snapshot is written exactly once over the whole sequence.       *)
(***************************************************************************)
C1_InitIdempotent ==
    \A i \in 1..Len(calls) :
        ~calls[i].raised =>
            /\ \A j \in i..Len(calls) :
                    /\ ~calls[j].raised
                    /\ calls[j].ref = calls[i].ref
                    /\ calls[j].seen = calls[i].seen
                    /\ calls[j].validations = calls[i].validations
            /\ nWrites = 1

(***************************************************************************)
(* C3: in the mapping the first init validates, an explicit override wins  *)
(* over the process environment and the env files, the process environment *)
(* wins over the env files, and an env-file value is used only for a key   *)
(* neither of the two defines.                                             *)
(***************************************************************************)
\* the value some env file gives key k, as the cascade of C2 selects it
FileValue(k) == load_env_files(gather_env_files(listing))[k]

FileKeys == DOMAIN load_env_files(gather_env_files(listing))

C3_Precedence ==
    nValidates >= 1 =>
        LET data == validated.data
            kwargs == validated.kwargs
        IN  \A k \in Keys :
                IF k \in DOMAIN kwargs
                    THEN k \in DOMAIN data /\ data[k] = kwargs[k]
                ELSE IF k \in DOMAIN environ
                    THEN k \in DOMAIN data /\ data[k] = environ[k]
                ELSE IF k \in FileKeys
                    THEN k \in DOMAIN data /\ data[k] = FileValue(k)
                ELSE k \notin DOMAIN data

\* the first init validated a mapping in which the override of K beat the
\* environment's and a file's value, and the environment's L stood
C3_Witness ==
    /\ nValidates = 1
    /\ "K" \in FileKeys /\ FileValue("K") = "a"
    /\ "K" \in DOMAIN environ /\ environ["K"] = "b"
    /\ validated.kwargs = [k \in {"K"} |-> "c"]
    /\ validated.data["K"] = "c"
    /\ "L" \in DOMAIN environ /\ validated.data["L"] = "c"

(***************************************************************************)
(* C9: the snapshot is persisted before the singleton is cached: whenever  *)
(* _SettingsSingleton holds a record, that record's snapshot file has been *)
(* written, so a failed mkdir or write leaves nothing cached.              *)
(***************************************************************************)
C9_PersistBeforeCache ==
    instance # 0 => snapshot = SnapshotOf(objs[instance])

(***************************************************************************)
(* The rewriter specification: one call of bump_at_project_root on a       *)
(* project root.                                                           *)
(***************************************************************************)
Text123 == <<"1", ".", "2", ".", "3">>

Text999 == <<"9", ".", "9", ".", "9">>

TextBad == <<"1", ".", "2">>

ManifestLines ==
    {TableLine("project"), TableLine("tool.poetry"), TableLine("tool.other"),
     VersionLine("double", Text123), VersionLine("double", Text999),
     VersionLine("double", TextBad), VersionLine("single", Text123)}

Manifests ==
    {NoFile} \cup {File(ls) : ls \in UNION {[1..n -> ManifestLines] : n \in 0..MaxLines}}

InitFiles ==
    {NoFile, File(<<>>), File(<<CodeLine>>), File(<<DunderLine(Text999)>>),
     File(<<CodeLine, DunderLine(Text999)>>),
     File(<<DunderLine(Text123), DunderLine(Text999)>>)}

InitRewriter ==
    /\ pyproject \in Manifests
    /\ pkg_init \in InitFiles
    /\ before = [pyproject |-> pyproject, pkg_init |-> pkg_init]
    /\ bumpCall = NoCall
    /\ bumpResult = NoResult
    /\ VersionIdle
    /\ CascadeIdle
    /\ SingletonIdle

RaisedError(error) == [status |-> "raised", error |-> error]

\* VersionBase.bump_at_project_root(project_root, part, prerelease, dry_run)
BumpAtProjectRoot(part, prerelease, dry_run) ==
    /\ bumpResult = NoResult
    /\ bumpCall' = [part |-> part, prerelease |-> prerelease, dry_run |-> dry_run]
    /\ IF ~pyproject.exists
       THEN /\ bumpResult' = RaisedError("FileNotFoundError")
            /\ UNCHANGED <<pyproject, pkg_init>>
       ELSE IF ~pkg_init.exists
       THEN /\ bumpResult' = RaisedError("FileNotFoundError")
            /\ UNCHANGED <<pyproject, pkg_init>>
       ELSE LET current == ReadVersion(pyproject)
            IN  IF ~current.ok
                THEN /\ bumpResult' = RaisedError(current.error)
                     /\ UNCHANGED <<pyproject, pkg_init>>
                ELSE LET r == Bumped(<<current.v>>, 1, part, prerelease)
                         bumped == r.heap[r.ref]
                         w == WritePyproject(pyproject, bumped)
                     IN  IF ~Writes(dry_run)
                         THEN /\ bumpResult' = [status |-> "returned", v |-> bumped]
                              /\ UNCHANGED <<pyproject, pkg_init>>
                         ELSE IF ~w.ok
                         THEN /\ bumpResult' = RaisedError("ValueError")
                              /\ UNCHANGED <<pyproject, pkg_init>>
                         ELSE /\ pyproject' = w.file
                              /\ pkg_init' = WriteInit(pkg_init, bumped)
                              /\ bumpResult' = [status |-> "returned", v |-> bumped]
    /\ UNCHANGED before
    /\ UNCHANGED <<versionVars, cascadeVars, singletonVars>>

NextRewriter ==
    \E part \in Parts, prerelease \in {None, Some(<<"r", "c">>)}, dry_run \in BOOLEAN :
        BumpAtProjectRoot(part, prerelease, dry_run)

SpecRewriter == InitRewriter /\ [][NextRewriter]_vars

\* the call ran on a root with both files and a manifest whose version reads
ValidRoot ==
    /\ bumpResult # NoResult
    /\ before.pyproject.exists
    /\ before.pkg_init.exists
    /\ ReadVersion(before.pyproject).ok

Untouched ==
    /\ pyproject = before.pyproject
    /\ pkg_init = before.pkg_init

(***************************************************************************)
(* C7: on a root whose manifest and entry-point file exist and whose       *)
(* manifest declares a valid version V, a dry run returns V bumped by the  *)
(* part (with the prerelease given) and leaves both files unchanged.       *)
(***************************************************************************)
C7_DryRun ==
    (ValidRoot /\ bumpCall.dry_run) =>
        /\ bumpResult.status = "returned"
        /\ bumpResult.v = BumpExpected(ReadVersion(before.pyproject).v,
                                       bumpCall.part, bumpCall.prerelease)
        /\ Untouched

\* a dry-run patch bump of a manifest that declares 1.2.3 in its project
\* table and could have been rewritten returned 1.2.4
C7_Witness ==
    /\ ValidRoot
    /\ bumpCall = [part |-> "patch", prerelease |-> None, dry_run |-> TRUE]
    /\ before.pyproject.lines
            = <<TableLine("project"), VersionLine("double", Text123)>>
    /\ FirstMatch(before.pkg_init.lines, "dunder") # 0
    /\ bumpResult.status = "returned"
    /\ Str(bumpResult.v) = <<"1", ".", "2", ".", "4">>

(***************************************************************************)
(* C8: a call that meets a missing manifest, a missing entry-point file, a *)
(* version that cannot be read or parsed, or (when writing) a manifest     *)
(* without the version-assignment pattern raises, and whenever the call    *)
(* raises neither file has been modified.                                  *)
(***************************************************************************)
C8_FailureLeavesFiles ==
    bumpResult # NoResult =>
        /\ (\/ ~before.pyproject.exists
            \/ ~before.pkg_init.exists
            \/ ~ReadVersion(before.pyproject).ok
            \/ /\ ~bumpCall.dry_run
               /\ FirstMatch(before.pyproject.lines, "version") = 0)
           => bumpResult.status = "raised"
        /\ bumpResult.status = "raised" => Untouched

\* a writing call raised on a manifest whose version reads (from a literal
\* string) and has no line the pattern matches, the entry-point file holding
\* an assignment that could have been rewritten
C8_Witness ==
    /\ ValidRoot
    /\ ~bumpCall.dry_run
    /\ FirstMatch(before.pyproject.lines, "version") = 0
    /\ FirstMatch(before.pkg_init.lines, "dunder") # 0
    /\ bumpResult = RaisedError("ValueError")

(***************************************************************************)
(* C10: after a writing call that returned B, reading the manifest back    *)
(* as the call read it yields B, and the first __version__ assignment of   *)
(* the entry-point file is B, for every manifest layout.                   *)
(***************************************************************************)
C10_ReadBack ==
    (bumpResult # NoResult /\ bumpResult.status = "returned" /\ ~bumpCall.dry_run) =>
        /\ ReadVersion(pyproject).ok
        /\ ReadVersion(pyproject).v = bumpResult.v
        /\ FirstMatch(pkg_init.lines, "dunder") # 0
        /\ pkg_init.lines[FirstMatch(pkg_init.lines, "dunder")].text
                = Str(bumpResult.v)

====
